---- MODULE Spec2Model ----
(***************************************************************************)
(* A model of pyomo.contrib.pynumero.interfaces.external_pyomo_model:      *)
(* the ExternalPyomoModel grey-box model, get_hessian_of_constraint and    *)
(* _dense_to_full_sparse.                                                  *)
(*                                                                         *)
(* Pyomo constraints are polynomials with integer coefficients over the    *)
(* Pyomo variables; variable values are integers, and everything that      *)
(* comes out of a linear solve is an exact rational.  PyomoNLP, the nested *)
(* solver, scipy's splu and the subsystem utilities are collaborators of   *)
(* the file and are modelled by their contracts.                           *)
(***************************************************************************)
EXTENDS Integers, Sequences, FiniteSets, TLC

(***************************************************************************)
(* Bounds of the model.                                                    *)
(***************************************************************************)
\* input values handed to set_input_values range over 0..XMax
XMax == 1
\* the nested solver searches (and may leave) external variables in -YMax..YMax
YMax == 1
\* _dense_to_full_sparse is applied to dense matrices of up to MaxDim x MaxDim
MaxDim == 2

XVals == 0..XMax
YVals == (0 - YMax)..YMax

(***************************************************************************)
(* Exact rational arithmetic (the values of numpy float arrays).           *)
(***************************************************************************)
Abs(i) == IF i < 0 THEN 0 - i ELSE i

RECURSIVE GCD(_, _)
GCD(a, b) == IF b = 0 THEN a ELSE GCD(b, a % b)

Rat(n, d) ==
    LET s == IF d < 0 THEN 0 - 1 ELSE 1
        g == GCD(Abs(n), Abs(d))
    IN  [n |-> (s * n) \div g, d |-> (s * d) \div g]

RInt(i) == [n |-> i, d |-> 1]
RZero == RInt(0)
RAdd(a, b) == Rat(a.n * b.d + b.n * a.d, a.d * b.d)
RMul(a, b) == Rat(a.n * b.n, a.d * b.d)
RNeg(a) == [n |-> 0 - a.n, d |-> a.d]
RSub(a, b) == RAdd(a, RNeg(b))
RDiv(a, b) == Rat(a.n * b.d, a.d * b.n)
RAbsLess(a, b) == Abs(a.n) * b.d < Abs(b.n) * a.d

RECURSIVE RSum(_, _, _)
\* sum of F(k) for k in lo..hi
RSum(F(_), lo, hi) == IF lo > hi THEN RZero ELSE RAdd(F(lo), RSum(F, lo + 1, hi))

(***************************************************************************)
(* Dense matrices (2-d numpy arrays), indexed from 0 as in the source.     *)
(***************************************************************************)
RECURSIVE ListUpTo(_, _)
ListUpTo(F(_), n) == IF n = 0 THEN <<>> ELSE Append(ListUpTo(F, n - 1), F(n))

\* the sequence <<F(1), ..., F(n)>>
List(n, F(_)) == ListUpTo(F, n)

\* the nr x nc matrix with entries F(i, j), stored row by row
Mat(nr, nc, F(_, _)) ==
    [nrow |-> nr, ncol |-> nc,
     a |-> List(nr * nc, LAMBDA k : F((k - 1) \div nc, (k - 1) % nc))]

At(M, i, j) == M.a[i * M.ncol + j + 1]

MatAdd(A, B) == Mat(A.nrow, A.ncol, LAMBDA i, j : RAdd(At(A, i, j), At(B, i, j)))

\* A.dot(B)
MatDot(A, B) ==
    Mat(A.nrow, B.ncol,
        LAMBDA i, j : RSum(LAMBDA k : RMul(At(A, i, k), At(B, k, j)), 0, A.ncol - 1))

\* c * A
MatScale(c, A) == Mat(A.nrow, A.ncol, LAMBDA i, j : RMul(c, At(A, i, j)))

\* A.transpose()
MatT(A) == Mat(A.ncol, A.nrow, LAMBDA i, j : At(A, j, i))

MatZero(nr, nc) == Mat(nr, nc, LAMBDA i, j : RZero)

(***************************************************************************)
(* Pyomo expressions: a polynomial is a sequence of terms, a term is a     *)
(* coefficient and one exponent per Pyomo variable.                        *)
(***************************************************************************)
RECURSIVE Pow(_, _)
Pow(b, k) == IF k = 0 THEN 1 ELSE b * Pow(b, k - 1)

RECURSIVE MonoVal(_, _, _)
MonoVal(e, z, i) == IF i > Len(e) THEN 1 ELSE Pow(z[i], e[i]) * MonoVal(e, z, i + 1)

TermVal(t, z) == t.c * MonoVal(t.e, z, 1)

RECURSIVE PolyValFrom(_, _, _)
PolyValFrom(p, z, k) ==
    IF k > Len(p) THEN 0 ELSE TermVal(p[k], z) + PolyValFrom(p, z, k + 1)

\* value of the expression at the variable values z
PolyVal(p, z) == PolyValFrom(p, z, 1)

\* partial derivative of a term / an expression with respect to variable i
TermDiff(t, i) ==
    IF t.e[i] = 0 THEN [c |-> 0, e |-> t.e]
    ELSE [c |-> t.c * t.e[i], e |-> [t.e EXCEPT ![i] = @ - 1]]

PolyDiff(p, i) == [k \in 1..Len(p) |-> TermDiff(p[k], i)]

\* identify_variables(expr): the variables that appear in the expression
VarsOf(p) == {i \in 1..(IF Len(p) = 0 THEN 0 ELSE Len(p[1].e)) :
                \E k \in 1..Len(p) : p[k].c # 0 /\ p[k].e[i] > 0}

\* Python's None and a present value
None == <<>>
Some(v) == <<v>>

(***************************************************************************)
(* The partitions handed to the constructor.  Each names the Pyomo         *)
(* variables (by index into the value vector), their values when the       *)
(* model is built, and the residual and external constraint bodies.        *)
(***************************************************************************)
T(c, e) == [c |-> c, e |-> e]

\* g = y^2 - x, f1 = y - 1, f2 = x*y^2
PartSqrt ==
    [name |-> "sqrt", init |-> <<2, 1>>,
     input_vars |-> <<1>>, external_vars |-> <<2>>,
     residual_cons |-> << <<T(1, <<0, 1>>), T(0 - 1, <<0, 0>>)>>,
                          <<T(1, <<1, 2>>)>> >>,
     external_cons |-> << <<T(1, <<0, 2>>), T(0 - 1, <<1, 0>>)>> >>]

\* g = 0*y - x, f = y - 1
PartSingular ==
    [name |-> "singular", init |-> <<1, 1>>,
     input_vars |-> <<1>>, external_vars |-> <<2>>,
     residual_cons |-> << <<T(1, <<0, 1>>), T(0 - 1, <<0, 0>>)>> >>,
     external_cons |-> << <<T(0, <<0, 1>>), T(0 - 1, <<1, 0>>)>> >>]

\* g = x1^2*y - x2, f = y^2 - x1*x2
PartBilinear ==
    [name |-> "bilinear", init |-> <<1, 2, 0>>,
     input_vars |-> <<1, 2>>, external_vars |-> <<3>>,
     residual_cons |-> << <<T(1, <<0, 0, 2>>), T(0 - 1, <<1, 1, 0>>)>> >>,
     external_cons |-> << <<T(1, <<2, 0, 1>>), T(0 - 1, <<0, 1, 0>>)>> >>]

\* g1 = y2 - x, g2 = y1^2 - y2, f = y1*y2 + x*y1
PartTwoExt ==
    [name |-> "twoext", init |-> <<1, 1, 0>>,
     input_vars |-> <<1>>, external_vars |-> <<2, 3>>,
     residual_cons |-> << <<T(1, <<0, 1, 1>>), T(1, <<1, 1, 0>>)>> >>,
     external_cons |-> << <<T(1, <<0, 0, 1>>), T(0 - 1, <<1, 0, 0>>)>>,
                          <<T(1, <<0, 2, 0>>), T(0 - 1, <<0, 0, 1>>)>> >>]

\* g = y - x - w with w a variable outside the partition, f = y
PartStray ==
    [name |-> "stray", init |-> <<0, 1, 1>>,
     input_vars |-> <<1>>, external_vars |-> <<2>>,
     residual_cons |-> << <<T(1, <<0, 1, 0>>)>> >>,
     external_cons |-> << <<T(1, <<0, 1, 0>>), T(0 - 1, <<1, 0, 0>>),
                            T(0 - 1, <<0, 0, 1>>)>> >>]

\* two external variables, one external equation
PartWide ==
    [name |-> "wide", init |-> <<1, 1, 1>>,
     input_vars |-> <<1>>, external_vars |-> <<2, 3>>,
     residual_cons |-> << <<T(1, <<0, 1, 0>>)>> >>,
     external_cons |-> << <<T(1, <<0, 1, 1>>), T(0 - 1, <<1, 0, 0>>)>> >>]

\* one external variable, two external equations
PartTall ==
    [name |-> "tall", init |-> <<1, 1>>,
     input_vars |-> <<1>>, external_vars |-> <<2>>,
     residual_cons |-> << <<T(1, <<0, 1>>)>> >>,
     external_cons |-> << <<T(1, <<0, 1>>), T(0 - 1, <<1, 0>>)>>,
                          <<T(1, <<0, 2>>), T(0 - 1, <<1, 0>>)>> >>]

Partitions ==
    {PartSqrt, PartSingular, PartBilinear, PartTwoExt, PartStray, PartWide, PartTall}

(***************************************************************************)
(* PyomoNLP: built from a block, it captures the variable values of that   *)
(* moment; every later evaluation is at the captured point.                *)
(***************************************************************************)
PyomoNLP(values) == [z |-> values]

extract_subvector_constraints(nlp, cons) ==
    List(Len(cons), LAMBDA k : RInt(PolyVal(cons[k], nlp.z)))

\* rows are the constraints, columns the variables
extract_submatrix_jacobian(nlp, variables, cons) ==
    Mat(Len(cons), Len(variables),
        LAMBDA i, j : RInt(PolyVal(PolyDiff(cons[i + 1], variables[j + 1]), nlp.z)))

\* Hessian of the Lagrangian sum_k duals[k] * cons[k] (the objective is 0)
extract_submatrix_hessian_lag(nlp, cons, duals, wrt1, wrt2) ==
    Mat(Len(wrt1), Len(wrt2),
        LAMBDA a, b :
            RSum(LAMBDA k : RInt(duals[k] *
                     PolyVal(PolyDiff(PolyDiff(cons[k], wrt1[a + 1]), wrt2[b + 1]),
                             nlp.z)),
                 1, Len(cons)))

(***************************************************************************)
(* scipy.sparse.linalg.splu and the solve of the factor object: Gaussian   *)
(* elimination with partial (row) pivoting, in exact arithmetic.  The      *)
(* factorization of an exactly singular matrix raises RuntimeError.        *)
(***************************************************************************)
\* the matrix [A | B]
Augment(A, B) ==
    Mat(A.nrow, A.ncol + B.ncol,
        LAMBDA i, j : IF j < A.ncol THEN At(A, i, j) ELSE At(B, i, j - A.ncol))

\* the row at or below k whose entry in column k is largest in magnitude
PivotRow(M, k) ==
    CHOOSE p \in k..(M.nrow - 1) :
        \A q \in k..(M.nrow - 1) :
            /\ ~RAbsLess(At(M, p, k), At(M, q, k))
            /\ q < p => RAbsLess(At(M, q, k), At(M, p, k))

\* swap rows k and p, scale row k to a unit pivot, clear column k elsewhere
Eliminate(M, k, p) ==
    LET src(i) == IF i = k THEN p ELSE IF i = p THEN k ELSE i
        piv == At(M, p, k)
    IN  Mat(M.nrow, M.ncol,
            LAMBDA i, j :
                IF i = k THEN RDiv(At(M, p, j), piv)
                ELSE RSub(At(M, src(i), j),
                          RMul(At(M, src(i), k), RDiv(At(M, p, j), piv))))

RECURSIVE GaussJordan(_, _)
GaussJordan(M, k) ==
    IF k = M.nrow THEN [ok |-> TRUE, M |-> M]
    ELSE LET p == PivotRow(M, k)
         IN  IF At(M, p, k) = RZero THEN [ok |-> FALSE, M |-> M]
             ELSE GaussJordan(Eliminate(M, k, p), k + 1)

\* sps.linalg.splu(A): the factor object, or the fact that A is singular
splu(A) == [singular |-> ~GaussJordan(A, 0).ok, A |-> A]

\* fact.solve(B) for a 2-d right-hand side
lu_solve(fact, B) ==
    LET r == GaussJordan(Augment(fact.A, B), 0).M
    IN  Mat(B.nrow, B.ncol, LAMBDA i, j : At(r, i, j + fact.A.ncol))

\* fact.solve(v) for a 1-d right-hand side (a sequence)
lu_solve_vec(fact, v) ==
    LET r == lu_solve(fact, Mat(Len(v), 1, LAMBDA i, j : v[i + 1]))
    IN  List(Len(v), LAMBDA k : At(r, k - 1, 0))

(***************************************************************************)
(* _dense_to_full_sparse: a coordinate matrix with one stored entry per    *)
(* coordinate of the dense matrix, in row-major order.                     *)
(***************************************************************************)
RECURSIVE NonZeroFrom(_, _)
NonZeroFrom(q, k) ==
    IF k > Len(q) THEN <<>>
    ELSE IF q[k] # RZero THEN <<k>> \o NonZeroFrom(q, k + 1)
         ELSE NonZeroFrom(q, k + 1)

\* a conversion that stores the nonzero entries only
_dense_to_sparse_nonzero(matrix) ==
    LET keep == NonZeroFrom(matrix.a, 1)
    IN  [shape |-> <<matrix.nrow, matrix.ncol>>,
         row |-> List(Len(keep), LAMBDA k : (keep[k] - 1) \div matrix.ncol),
         col |-> List(Len(keep), LAMBDA k : (keep[k] - 1) % matrix.ncol),
         data |-> List(Len(keep), LAMBDA k : matrix.a[keep[k]])]

_dense_to_full_sparse(matrix) ==
    LET nrow == matrix.nrow
        ncol == matrix.ncol
        cnt == nrow * ncol
    IN  [shape |-> <<nrow, ncol>>,
         row |-> List(cnt, LAMBDA k : (k - 1) \div ncol),
         col |-> List(cnt, LAMBDA k : (k - 1) % ncol),
         data |-> List(cnt, LAMBDA k : At(matrix, (k - 1) \div ncol, (k - 1) % ncol))]

RECURSIVE TrilKeep(_, _)
\* the positions of the stored entries on or below the diagonal
TrilKeep(coo, k) ==
    IF k > Len(coo.row) THEN <<>>
    ELSE IF coo.col[k] <= coo.row[k] THEN <<k>> \o TrilKeep(coo, k + 1)
         ELSE TrilKeep(coo, k + 1)

\* sps.tril(coo): the stored entries with col <= row, explicit zeros kept
tril(coo) ==
    LET keep == TrilKeep(coo, 1)
    IN  [shape |-> coo.shape,
         row |-> List(Len(keep), LAMBDA k : coo.row[keep[k]]),
         col |-> List(Len(keep), LAMBDA k : coo.col[keep[k]]),
         data |-> List(Len(keep), LAMBDA k : coo.data[keep[k]])]

(***************************************************************************)
(* get_hessian_of_constraint.  val holds the current values of the Pyomo   *)
(* variables and fixed their fixed flags; the sub-model's evaluator is     *)
(* built from them.  Variable Len(val)+1 of the sub-model is _dummy_var.   *)
(***************************************************************************)
\* an expression of the model as an expression of the sub-model
WithDummy(p) == [k \in 1..Len(p) |-> T(p[k].c, Append(p[k].e, 0))]

\* the exponent vector of the single variable i among n
Unit(i, n) == [j \in 1..n |-> IF j = i THEN 1 ELSE 0]

\* body of _dummy_con: sum(variables) - _dummy_var
DummyCon(variables, n) ==
    [k \in 1..(Len(variables) + 1) |->
        IF k <= Len(variables) THEN T(1, Unit(variables[k], n + 1))
        ELSE T(0 - 1, Unit(n + 1, n + 1))]

\* The expression tree of a constraint body: the sum of its terms in their
\* order, a term the product of its factors in the order of the variables
\* (products nest to the left), a factor a variable or a power of one, and
\* a term with a coefficient other than 1 one node around its product.
\* LeafDepth is the depth of variable i below the root of term t.
LeafDepth(t, i) ==
    LET factors == {j \in 1..Len(t.e) : t.e[j] > 0}
        m == Cardinality(factors)
        pos == Cardinality({j \in factors : j <= i})
    IN  (IF m = 1 THEN 0 ELSE IF pos = 1 THEN m - 1 ELSE m - pos + 1)
        + (IF t.e[i] > 1 THEN 1 ELSE 0)
        + (IF t.c # 1 THEN 1 ELSE 0)

\* the variable leaves of the tree: <<depth, term, variable>>
Leaves(p) ==
    UNION {{<<LeafDepth(p[k], i), k, i>> : i \in {i \in 1..Len(p[k].e) : p[k].e[i] > 0}} :
              k \in {k \in 1..Len(p) : p[k].c # 0}}

\* leaf a is met before leaf b by a walk level by level, each level from
\* left to right
MetBefore(a, b) ==
    \/ a[1] < b[1]
    \/ a[1] = b[1] /\ a[2] < b[2]
    \/ a[1] = b[1] /\ a[2] = b[2] /\ a[3] < b[3]

RECURSIVE WalkFrom(_, _, _)
\* the variables of the leaves in the order the walk meets them, each
\* variable once, the fixed ones left out; seen are the variables met so far
WalkFrom(leaves, seen, flags) ==
    IF leaves = {} THEN <<>>
    ELSE LET a == CHOOSE a \in leaves : \A b \in leaves \ {a} : MetBefore(a, b)
         IN  IF a[3] \in seen \/ flags[a[3]]
             THEN WalkFrom(leaves \ {a}, seen, flags)
             ELSE <<a[3]>> \o WalkFrom(leaves \ {a}, seen \cup {a[3]}, flags)

\* list(identify_variables(expr, include_fixed=False)): a breadth-first walk
\* of the expression tree
identify_variables(p, flags) == WalkFrom(Leaves(p), {}, flags)

\* the multipliers with 1 at the first index, whatever idx is
HessianDuals_first(idx) == [<<0, 0>> EXCEPT ![1] = 1]

\* the multipliers handed to the sub-model's evaluator
HessianDuals(idx) == [<<0, 0>> EXCEPT ![idx] = 1]

\* the orders in which the sub-model's evaluator may list the two constraints
ConstraintOrders == {<<"constraint", "_dummy_con">>, <<"_dummy_con", "constraint">>}

\* nlp.get_constraint_indices(constraints)[0]
get_constraint_index(order) == CHOOSE k \in 1..Len(order) : order[k] = "constraint"

\* get_hessian_of_constraint returning the columns for the rows
hessian_of_constraint_call_swapped(constraint, wrt1, wrt2, val, fixed, order) ==
    LET identified == identify_variables(constraint, fixed)
        w1 == IF wrt1 # None THEN wrt1[1]
              ELSE IF wrt2 # None THEN wrt2[1] ELSE identified
        w2 == IF wrt2 # None THEN wrt2[1]
              ELSE IF wrt1 # None THEN wrt1[1] ELSE identified
        variables == IF wrt1 # None /\ wrt2 # None THEN wrt1[1] \o wrt2[1] ELSE w1
        n == Len(val)
        constraints == [k \in 1..Len(order) |->
                          IF order[k] = "constraint" THEN WithDummy(constraint)
                          ELSE DummyCon(variables, n)]
        nlp == PyomoNLP(Append(val, 0))
        idx == get_constraint_index(order)
        duals == HessianDuals(idx)
    IN  [constraints |-> constraints, variables |-> variables,
         wrt1 |-> w1, wrt2 |-> w2, idx |-> idx, duals |-> duals,
         value |-> extract_submatrix_hessian_lag(nlp, constraints, duals, w2, w1)]

\* get_hessian_of_constraint with the sub-model it builds: the constraints
\* in the order the evaluator lists them, the variables of _dummy_con, the
\* variable lists, the multipliers, and the matrix returned
hessian_of_constraint_call(constraint, wrt1, wrt2, val, fixed, order) ==
    LET identified == identify_variables(constraint, fixed)
        w1 == IF wrt1 # None THEN wrt1[1]
              ELSE IF wrt2 # None THEN wrt2[1] ELSE identified
        w2 == IF wrt2 # None THEN wrt2[1]
              ELSE IF wrt1 # None THEN wrt1[1] ELSE identified
        variables == IF wrt1 # None /\ wrt2 # None THEN wrt1[1] \o wrt2[1] ELSE w1
        n == Len(val)
        constraints == [k \in 1..Len(order) |->
                          IF order[k] = "constraint" THEN WithDummy(constraint)
                          ELSE DummyCon(variables, n)]
        \* _dummy_var has no value; the evaluator starts it at 0
        nlp == PyomoNLP(Append(val, 0))
        idx == get_constraint_index(order)
        duals == HessianDuals(idx)
    IN  [constraints |-> constraints, variables |-> variables,
         wrt1 |-> w1, wrt2 |-> w2, idx |-> idx, duals |-> duals,
         value |-> extract_submatrix_hessian_lag(nlp, constraints, duals, w1, w2)]

\* the matrix get_hessian_of_constraint returns; it does not depend on the
\* order of the evaluator's constraints
get_hessian_of_constraint(constraint, wrt1, wrt2, val, fixed) ==
    hessian_of_constraint_call(constraint, wrt1, wrt2, val, fixed,
                               <<"constraint", "_dummy_con">>).value

(***************************************************************************)
(* The queries of ExternalPyomoModel as functions of the partition P, the  *)
(* model's evaluator nlp (self._nlp), the current values val and fixed     *)
(* flags of the Pyomo variables and the stored multipliers.  A query       *)
(* yields a status ("ok" or the exception raised) and a value.             *)
(***************************************************************************)
Ok(v) == [status |-> "ok", value |-> v]
Raise(e) == [status |-> e, value |-> None]

evaluate_equality_constraints(P, nlp) ==
    Ok(extract_subvector_constraints(nlp, P.residual_cons))

\* evaluate_jacobian_external_variables answering a singular factorization
\* with a zero sensitivity
evaluate_jacobian_external_variables_lenient(P, nlp) ==
    LET jgx == extract_submatrix_jacobian(nlp, P.input_vars, P.external_cons)
        jgy == extract_submatrix_jacobian(nlp, P.external_vars, P.external_cons)
        fact == splu(jgy)
    IN  IF fact.singular THEN Ok(MatZero(jgx.nrow, jgx.ncol))
        ELSE Ok(MatScale(RInt(0 - 1), lu_solve(fact, jgx)))

\* dydx = -1 * splu(jgy).solve(jgx)
evaluate_jacobian_external_variables(P, nlp) ==
    LET jgx == extract_submatrix_jacobian(nlp, P.input_vars, P.external_cons)
        jgy == extract_submatrix_jacobian(nlp, P.external_vars, P.external_cons)
        fact == splu(jgy)
    IN  IF fact.singular THEN Raise("RuntimeError")
        ELSE Ok(MatScale(RInt(0 - 1), lu_solve(fact, jgx)))

\* evaluate_jacobian_equality_constraints with dydx of the wrong sign
evaluate_jacobian_equality_constraints_sign(P, nlp) ==
    LET jfx == extract_submatrix_jacobian(nlp, P.input_vars, P.residual_cons)
        jfy == extract_submatrix_jacobian(nlp, P.external_vars, P.residual_cons)
        jgx == extract_submatrix_jacobian(nlp, P.input_vars, P.external_cons)
        jgy == extract_submatrix_jacobian(nlp, P.external_vars, P.external_cons)
        fact == splu(jgy)
        dydx == lu_solve(fact, jgx)
        dfdx == MatAdd(jfx, MatDot(jfy, dydx))
    IN  IF fact.singular THEN Raise("RuntimeError")
        ELSE Ok(_dense_to_full_sparse(dfdx))

evaluate_jacobian_equality_constraints(P, nlp) ==
    LET jfx == extract_submatrix_jacobian(nlp, P.input_vars, P.residual_cons)
        jfy == extract_submatrix_jacobian(nlp, P.external_vars, P.residual_cons)
        jgx == extract_submatrix_jacobian(nlp, P.input_vars, P.external_cons)
        jgy == extract_submatrix_jacobian(nlp, P.external_vars, P.external_cons)
        fact == splu(jgy)
        dydx == MatScale(RInt(0 - 1), lu_solve(fact, jgx))
        dfdx == MatAdd(jfx, MatDot(jfy, dydx))
    IN  IF fact.singular THEN Raise("RuntimeError")
        ELSE Ok(_dense_to_full_sparse(dfdx))

\* ChainTerms with the product of term2 twice instead of the product and
\* its transpose
ChainTerms_product_twice(hxx, hxy, hyy, dydx) ==
    LET prod == MatDot(hxy, dydx)
        term2 == MatAdd(prod, prod)
        term3 == MatDot(MatDot(MatT(dydx), hyy), dydx)
    IN  MatAdd(MatAdd(hxx, term2), term3)

\* term1 + term2 + term3 from the three blocks of one constraint's Hessian
ChainTerms(hxx, hxy, hyy, dydx) ==
    LET prod == MatDot(hxy, dydx)
        term2 == MatAdd(prod, MatT(prod))
        term3 == MatDot(MatDot(MatT(dydx), hyy), dydx)
    IN  MatAdd(MatAdd(hxx, term2), term3)

\* term1 + term2 + term3 for one constraint: the second derivative with
\* respect to the inputs through y(x), without the d2y/dx2 term
ChainHessian(con, x, y, dydx, val, fixed) ==
    ChainTerms(get_hessian_of_constraint(con, Some(x), None, val, fixed),
               get_hessian_of_constraint(con, Some(x), Some(y), val, fixed),
               get_hessian_of_constraint(con, Some(y), None, val, fixed),
               dydx)

\* d2ydx2 from term1 + term2 + term3 of every external constraint: one solve
\* with the factorization per pair of inputs
SolveVectors(jgy_fact, sum_, nx, ny) ==
    LET ng == Len(sum_)
        vectors == Mat(nx, nx, LAMBDA i, j : List(ng, LAMBDA m : At(sum_[m], i, j)))
        solved_vectors ==
            Mat(nx, nx, LAMBDA i, j : lu_solve_vec(jgy_fact, At(vectors, i, j)))
    IN  List(ny, LAMBDA k :
            Mat(nx, nx, LAMBDA i, j : RNeg(At(solved_vectors, i, j)[k])))

\* evaluate_hessian_external_variables once dg/dy is factorized
HessianExternalFrom(P, jgy_fact, jgx, val, fixed) ==
    LET x == P.input_vars
        y == P.external_vars
        g == P.external_cons
        dydx == MatScale(RInt(0 - 1), lu_solve(jgy_fact, jgx))
        sum_ == List(Len(g), LAMBDA m : ChainHessian(g[m], x, y, dydx, val, fixed))
    IN  IF jgy_fact.singular THEN Raise("RuntimeError")
        ELSE Ok(SolveVectors(jgy_fact, sum_, Len(x), Len(y)))

evaluate_hessian_external_variables(P, nlp, val, fixed) ==
    HessianExternalFrom(P,
        splu(extract_submatrix_jacobian(nlp, P.external_vars, P.external_cons)),
        extract_submatrix_jacobian(nlp, P.input_vars, P.external_cons),
        val, fixed)

\* term4 of residual i: sum over k of df_i/dy_k * d2y_k/dx2
Term4(jfy, d2ydx2, i, nx, ny) ==
    Mat(nx, nx, LAMBDA a, b :
        RSum(LAMBDA k : RMul(At(jfy, i - 1, k - 1), At(d2ydx2[k], a, b)), 1, ny))

\* evaluate_hessians_of_residuals once dydx and d2ydx2 have been asked for
HessiansOfResidualsFrom(P, nlp, val, fixed, rdydx, rd2ydx2) ==
    LET x == P.input_vars
        y == P.external_vars
        f == P.residual_cons
        jfy == extract_submatrix_jacobian(nlp, y, f)
        d2fdx2 == List(Len(f), LAMBDA i :
                      MatAdd(ChainHessian(f[i], x, y, rdydx.value, val, fixed),
                             Term4(jfy, rd2ydx2.value, i, Len(x), Len(y))))
    IN  IF rdydx.status # "ok" THEN Raise(rdydx.status)
        ELSE IF rd2ydx2.status # "ok" THEN Raise(rd2ydx2.status)
        ELSE Ok(d2fdx2)

evaluate_hessians_of_residuals(P, nlp, val, fixed) ==
    HessiansOfResidualsFrom(P, nlp, val, fixed,
        evaluate_jacobian_external_variables(P, nlp),
        evaluate_hessian_external_variables(P, nlp, val, fixed))

RECURSIVE WeightedSum(_, _, _, _)
\* sum(mult*matrix for mult, matrix in zip(multipliers, d2fdx2)), from k on
WeightedSum(multipliers, d2fdx2, k, nx) ==
    IF k > Len(multipliers) \/ k > Len(d2fdx2) THEN MatZero(nx, nx)
    ELSE MatAdd(MatScale(RInt(multipliers[k][1]), d2fdx2[k]),
                WeightedSum(multipliers, d2fdx2, k + 1, nx))

\* HessianLagFrom returning every coordinate, not the lower triangle only
HessianLagFrom_full(nx, r, multipliers) ==
    LET d2fdx2 == r.value
        paired == 1..(IF Len(multipliers) < Len(d2fdx2)
                      THEN Len(multipliers) ELSE Len(d2fdx2))
    IN  IF r.status # "ok" THEN Raise(r.status)
        ELSE IF \E k \in paired : multipliers[k] = None THEN Raise("TypeError")
        ELSE IF paired = {} THEN Raise("AttributeError")
        ELSE Ok(_dense_to_full_sparse(WeightedSum(multipliers, d2fdx2, 1, nx)))

\* HessianLagFrom taking a multiplier that was never set as zero
HessianLagFrom_unset_zero(nx, r, multipliers) ==
    LET d2fdx2 == r.value
        paired == 1..(IF Len(multipliers) < Len(d2fdx2)
                      THEN Len(multipliers) ELSE Len(d2fdx2))
        set_ == [k \in 1..Len(multipliers) |->
                    IF multipliers[k] = None THEN Some(0) ELSE multipliers[k]]
    IN  IF r.status # "ok" THEN Raise(r.status)
        ELSE IF paired = {} THEN Raise("AttributeError")
        ELSE Ok(tril(_dense_to_full_sparse(WeightedSum(set_, d2fdx2, 1, nx))))

\* evaluate_hessian_equality_constraints once the residual Hessians have been
\* asked for
HessianLagFrom(nx, r, multipliers) ==
    LET d2fdx2 == r.value
        paired == 1..(IF Len(multipliers) < Len(d2fdx2)
                      THEN Len(multipliers) ELSE Len(d2fdx2))
    IN  IF r.status # "ok" THEN Raise(r.status)
        ELSE IF \E k \in paired : multipliers[k] = None THEN Raise("TypeError")
        ELSE IF paired = {} THEN Raise("AttributeError")
        ELSE Ok(tril(_dense_to_full_sparse(WeightedSum(multipliers, d2fdx2, 1, nx))))

evaluate_hessian_equality_constraints(P, nlp, val, fixed, multipliers) ==
    HessianLagFrom(Len(P.input_vars),
                   evaluate_hessians_of_residuals(P, nlp, val, fixed),
                   multipliers)

(***************************************************************************)
(* State.                                                                  *)
(***************************************************************************)
(***************************************************************************)
(* The sizes and the labels the model reports.                             *)
(***************************************************************************)
n_inputs(part) == Len(part.input_vars)

n_equality_constraints(part) == Len(part.residual_cons)

\* input_names with the label of the first input for every input
input_names_first_label(part) ==
    [k \in 1..n_inputs(part) |-> "input_" \o ToString(0)]

\* "input_%i" % i for i in range(n_inputs()); position k of the sequence
\* holds Python's index k - 1
input_names(part) ==
    [k \in 1..n_inputs(part) |-> "input_" \o ToString(k - 1)]

equality_constraint_names(part) ==
    [k \in 1..n_equality_constraints(part) |-> "residual_" \o ToString(k - 1)]

VARIABLES
    phase,    \* "new": constructor not yet run; "built"; "rejected": it raised
    pname,    \* name of the partition handed to the constructor
    val,      \* current value of every Pyomo variable
    fixed,    \* fixed flag of every Pyomo variable
    nlp,      \* self._nlp
    mult,     \* self.residual_con_multipliers
    last,     \* the call that has just returned or raised, until the caller
              \* has taken its result; NoCall between calls
    hist,     \* history of set_input_values calls
    dense,    \* argument of a direct _dense_to_full_sparse call
    sparse    \* its result

vars == <<phase, pname, val, fixed, nlp, mult, last, hist, dense, sparse>>

\* the partition handed to the constructor
P == CHOOSE part \in Partitions : part.name = pname

\* multiplier values handed to set_equality_constraint_multipliers
LMax == 2
LambdaVals == 1..LMax

RECURSIVE SeqsOf(_, _)
\* the sequences of length n over S
SeqsOf(S, n) ==
    IF n = 0 THEN {<<>>}
    ELSE {Append(q, v) : q \in SeqsOf(S, n - 1), v \in S}

\* the sequences of length n over S, and one that is too short and one that
\* is too long
NearSeqs(S, n) ==
    SeqsOf(S, n) \cup SeqsOf({1}, n + 1) \cup (IF n > 0 THEN SeqsOf({1}, n - 1) ELSE {})

\* outcome: what the nested solver did in the call; nsolve: how often the
\* call invoked it; nsplu: how often the call factorized dg/dy; solve_fixed:
\* the fixed flags of the variables while the nested solver ran
NoCall == [op |-> "none", status |-> "ok", value |-> None,
           args |-> None, outcome |-> "none", nsolve |-> 0, nsplu |-> 0,
           solve_fixed |-> None]

Call(op, args, r) == [op |-> op, status |-> r.status, value |-> r.value,
                      args |-> args, outcome |-> "none", nsolve |-> 0, nsplu |-> 0,
                      solve_fixed |-> None]

\* good: the variable values at the return of the most recent
\*   set_input_values that returned normally;
\* cur: how the most recent set_input_values ended: "failed" (it raised),
\*   "not_converged" (it returned although the solver had not converged),
\*   "converged", or "recovered" (converged, and there had been trouble);
\* trouble: since the most recent set_input_values began, a call has raised
\*   or the solver has not converged;
\* lam: the vector handed to the most recent
\*   set_equality_constraint_multipliers call, where the calls are recorded
\*   (SpecLag)
NoHist == [good |-> None, cur |-> "none", trouble |-> FALSE, lam |-> None]

\* the fixed flags the variables may have when the model is built: the
\* variables of the partition are free, any other variable may be fixed
InitFixed(part) ==
    {f \in [1..Len(part.init) -> BOOLEAN] :
        \A i \in 1..Len(part.init) :
            f[i] => i \notin {part.input_vars[k] : k \in 1..Len(part.input_vars)}
                                \cup {part.external_vars[k] : k \in 1..Len(part.external_vars)}}

Init ==
    /\ phase = "new"
    /\ pname \in {part.name : part \in Partitions}
    /\ val = P.init
    /\ fixed \in InitFixed(P)
    /\ nlp = None
    /\ mult = <<>>
    /\ last = NoCall
    /\ hist = NoHist
    /\ dense = None
    /\ sparse = None

(***************************************************************************)
(* ExternalPyomoModel.__init__                                             *)
(***************************************************************************)
\* Construct without the check of the partition
Construct_unchecked(part, values) ==
    [status |-> "ok", nlp |-> PyomoNLP(values),
     mult |-> [k \in 1..Len(part.residual_cons) |-> None]]

\* the outcome of the constructor for partition part with variable values values
Construct(part, values) ==
    IF Len(part.external_vars) = Len(part.external_cons)
    THEN [status |-> "ok", nlp |-> PyomoNLP(values),
          mult |-> [k \in 1..Len(part.residual_cons) |-> None]]
    ELSE [status |-> "AssertionError", nlp |-> None, mult |-> <<>>]

\* the caller is between two calls
Idle == last.op = "none"

__init__ ==
    /\ phase = "new"
    /\ Idle
    /\ \E r \in {Construct(P, val)} :
           /\ phase' = IF r.status = "ok" THEN "built" ELSE "rejected"
           /\ nlp' = r.nlp
           /\ mult' = r.mult
           /\ last' = Call("__init__", None, [status |-> r.status, value |-> None])
    /\ UNCHANGED <<pname, val, fixed, hist, dense, sparse>>

(***************************************************************************)
(* set_input_values                                                        *)
(***************************************************************************)
RECURSIVE AssignFrom(_, _, _, _)
\* for var, val in zip(variables, values): var.set_value(val), from k on
AssignFrom(values, variables, new, k) ==
    IF k > Len(variables) \/ k > Len(new) THEN values
    ELSE AssignFrom([values EXCEPT ![variables[k]] = new[k]], variables, new, k + 1)

Assign(values, variables, new) == AssignFrom(values, variables, new, 1)

Range(q) == {q[k] : k \in 1..Len(q)}

\* _temp.input_vars: the unfixed variables of the external constraints
\* that are not external variables
TempInputVars(part, flags) ==
    {i \in UNION {VarsOf(part.external_cons[m]) : m \in 1..Len(part.external_cons)} :
        i \notin Range(part.external_vars) /\ ~flags[i]}

\* the variable values satisfy every external equation
SolvesExternal(part, values) ==
    \A m \in 1..Len(part.external_cons) : PolyVal(part.external_cons[m], values) = 0

\* What the nested solver may do with the sub-block: converge to a root,
\* return normally without having converged (the external variables then hold
\* its last iterate), or raise.
SolverOutcomes == {"converged", "not_converged", "raises"}

\* TemporarySubsystemManager(to_fix=variables) entered: every one of the
\* variables is fixed
fix_on_enter(flags, variables) ==
    [i \in 1..Len(flags) |-> flags[i] \/ i \in Range(variables)]

\* TemporarySubsystemManager left, normally or by an exception: the variables
\* it fixed are unfixed, those fixed before stay fixed
unfix_on_exit(flags, before, variables) ==
    [i \in 1..Len(flags) |-> IF i \in Range(variables) THEN before[i] ELSE flags[i]]

\* solver.solve(_temp) returning normally: the solver writes to the free
\* variables of the sub-block and to no other.  The external variables get
\* its iterate ys; any other free variable of the external constraints is
\* the solver's to move as well (here by one).
solve(part, values, flags, ys) ==
    [i \in 1..Len(values) |->
        IF flags[i] THEN values[i]
        ELSE IF \E k \in 1..Len(part.external_vars) : part.external_vars[k] = i
        THEN ys[CHOOSE k \in 1..Len(part.external_vars) : part.external_vars[k] = i]
        ELSE IF \E m \in 1..Len(part.external_cons) : i \in VarsOf(part.external_cons[m])
        THEN values[i] + 1
        ELSE values[i]]

\* set_input_values building the new evaluator before the nested solve
set_input_values_early_nlp(part, values, flags, evaluator, input_values, outcome, ys) ==
    LET assigned == Assign(values, part.input_vars, input_values)
        held == fix_on_enter(flags, part.input_vars)
        solved == solve(part, assigned, held, ys)
        released == unfix_on_exit(held, flags, part.input_vars)
    IN  IF ~(TempInputVars(part, flags) \subseteq Range(part.input_vars))
        THEN [status |-> "AssertionError", val |-> assigned, nlp |-> evaluator,
              nsolve |-> 0, fixed |-> flags, solve_fixed |-> None]
        ELSE IF outcome = "raises"
        THEN [status |-> "SolverError", val |-> assigned, nlp |-> PyomoNLP(assigned),
              nsolve |-> 1, fixed |-> released, solve_fixed |-> Some(held)]
        ELSE [status |-> "ok", val |-> solved, nlp |-> PyomoNLP(assigned),
              nsolve |-> 1, fixed |-> released, solve_fixed |-> Some(held)]

\* set_input_values solving without fixing the inputs
set_input_values_inputs_free(part, values, flags, evaluator, input_values, outcome, ys) ==
    LET assigned == Assign(values, part.input_vars, input_values)
        solved == solve(part, assigned, flags, ys)
    IN  IF ~(TempInputVars(part, flags) \subseteq Range(part.input_vars))
        THEN [status |-> "AssertionError", val |-> assigned, nlp |-> evaluator,
              nsolve |-> 0, fixed |-> flags, solve_fixed |-> None]
        ELSE IF outcome = "raises"
        THEN [status |-> "SolverError", val |-> assigned, nlp |-> evaluator,
              nsolve |-> 1, fixed |-> flags, solve_fixed |-> Some(flags)]
        ELSE [status |-> "ok", val |-> solved, nlp |-> PyomoNLP(solved),
              nsolve |-> 1, fixed |-> flags, solve_fixed |-> Some(flags)]

\* set_input_values checking the sub-block before it assigns the inputs
set_input_values_assert_first(part, values, flags, evaluator, input_values, outcome, ys) ==
    LET assigned == Assign(values, part.input_vars, input_values)
        held == fix_on_enter(flags, part.input_vars)
        solved == solve(part, assigned, held, ys)
        released == unfix_on_exit(held, flags, part.input_vars)
    IN  IF ~(TempInputVars(part, flags) \subseteq Range(part.input_vars))
        THEN [status |-> "AssertionError", val |-> values, nlp |-> evaluator,
              nsolve |-> 0, fixed |-> flags, solve_fixed |-> None]
        ELSE IF outcome = "raises"
        THEN [status |-> "SolverError", val |-> assigned, nlp |-> evaluator,
              nsolve |-> 1, fixed |-> released, solve_fixed |-> Some(held)]
        ELSE [status |-> "ok", val |-> solved, nlp |-> PyomoNLP(solved),
              nsolve |-> 1, fixed |-> released, solve_fixed |-> Some(held)]

\* the result of set_input_values: status, new variable values and fixed
\* flags, new evaluator, and the fixed flags the nested solver met
set_input_values(part, values, flags, evaluator, input_values, outcome, ys) ==
    LET assigned == Assign(values, part.input_vars, input_values)
        held == fix_on_enter(flags, part.input_vars)
        solved == solve(part, assigned, held, ys)
        released == unfix_on_exit(held, flags, part.input_vars)
    IN  IF ~(TempInputVars(part, flags) \subseteq Range(part.input_vars))
        THEN [status |-> "AssertionError", val |-> assigned, nlp |-> evaluator,
              nsolve |-> 0, fixed |-> flags, solve_fixed |-> None]
        ELSE IF outcome = "raises"
        THEN [status |-> "SolverError", val |-> assigned, nlp |-> evaluator,
              nsolve |-> 1, fixed |-> released, solve_fixed |-> Some(held)]
        ELSE [status |-> "ok", val |-> solved, nlp |-> PyomoNLP(solved),
              nsolve |-> 1, fixed |-> released, solve_fixed |-> Some(held)]

SetInputValues(input_values, outcome, ys) ==
    /\ phase = "built"
    /\ Idle
    /\ outcome = "converged" =>
            SolvesExternal(P, Assign(Assign(val, P.input_vars, input_values),
                                     P.external_vars, ys))
    /\ outcome = "raises" => ys = [k \in 1..Len(P.external_vars) |-> val[P.external_vars[k]]]
    /\ \E r \in {set_input_values(P, val, fixed, nlp, input_values, outcome, ys)} :
       LET ran == IF r.nsolve = 0 THEN "none" ELSE outcome
       IN  /\ val' = r.val
           /\ fixed' = r.fixed
           /\ nlp' = r.nlp
           /\ last' = [op |-> "set_input_values", status |-> r.status, value |-> None,
                       args |-> Some(input_values), outcome |-> ran,
                       nsolve |-> r.nsolve, nsplu |-> 0,
                       solve_fixed |-> r.solve_fixed]
           /\ hist' = [good |-> IF r.status = "ok" THEN Some(r.val) ELSE hist.good,
                       cur |-> IF r.status # "ok" THEN "failed"
                               ELSE IF ran = "converged" /\ hist.trouble
                                    THEN "recovered" ELSE ran,
                       trouble |-> r.status # "ok" \/ ran # "converged",
                       lam |-> hist.lam]
    /\ UNCHANGED <<phase, pname, mult, dense, sparse>>

(***************************************************************************)
(* set_equality_constraint_multipliers                                     *)
(***************************************************************************)
\* item assignment in order; a value past the end of the list raises
set_equality_constraint_multipliers(multipliers, eq_con_multipliers) ==
    [status |-> IF Len(eq_con_multipliers) > Len(multipliers)
                THEN "IndexError" ELSE "ok",
     mult |-> [k \in 1..Len(multipliers) |->
                 IF k <= Len(eq_con_multipliers) THEN Some(eq_con_multipliers[k])
                 ELSE multipliers[k]]]

\* SetMultipliers rebuilding the evaluator from the variables
SetMultipliers_rebuild(eq_con_multipliers) ==
    /\ phase = "built"
    /\ Idle
    /\ \E r \in {set_equality_constraint_multipliers(mult, eq_con_multipliers)} :
           /\ mult' = r.mult
           /\ last' = Call("set_equality_constraint_multipliers", Some(eq_con_multipliers),
                           [status |-> r.status, value |-> None])
           /\ hist' = [hist EXCEPT !.trouble = @ \/ r.status # "ok"]
    /\ nlp' = PyomoNLP(val)
    /\ UNCHANGED <<phase, pname, val, fixed, dense, sparse>>

SetMultipliers(eq_con_multipliers) ==
    /\ phase = "built"
    /\ Idle
    /\ \E r \in {set_equality_constraint_multipliers(mult, eq_con_multipliers)} :
           /\ mult' = r.mult
           /\ last' = Call("set_equality_constraint_multipliers", Some(eq_con_multipliers),
                           [status |-> r.status, value |-> None])
           /\ hist' = [hist EXCEPT !.trouble = @ \/ r.status # "ok"]
    /\ UNCHANGED <<phase, pname, val, fixed, nlp, dense, sparse>>

\* set_equality_constraint_multipliers, the vector of the call recorded in
\* the history
SetMultipliersRecorded(eq_con_multipliers) ==
    /\ phase = "built"
    /\ Idle
    /\ \E r \in {set_equality_constraint_multipliers(mult, eq_con_multipliers)} :
           /\ mult' = r.mult
           /\ last' = Call("set_equality_constraint_multipliers", Some(eq_con_multipliers),
                           [status |-> r.status, value |-> None])
           /\ hist' = [hist EXCEPT !.trouble = @ \/ r.status # "ok",
                                   !.lam = Some(eq_con_multipliers)]
    /\ UNCHANGED <<phase, pname, val, fixed, nlp, dense, sparse>>

(***************************************************************************)
(* The queries.                                                            *)
(***************************************************************************)
\* how often a query calls splu: once in each Jacobian query and in
\* evaluate_hessian_external_variables; evaluate_hessians_of_residuals calls
\* evaluate_jacobian_external_variables and then, unless that raised,
\* evaluate_hessian_external_variables
splu_calls(op, part, evaluator) ==
    CASE op \in {"evaluate_equality_constraints", "n_inputs", "n_equality_constraints",
                 "input_names", "equality_constraint_names"} -> 0
      [] op \in {"evaluate_jacobian_equality_constraints",
                 "evaluate_jacobian_external_variables",
                 "evaluate_hessian_external_variables"} -> 1
      [] op \in {"evaluate_hessians_of_residuals",
                 "evaluate_hessian_equality_constraints"} ->
            IF evaluate_jacobian_external_variables(part, evaluator).status = "ok"
            THEN 2 ELSE 1

\* Query leaving the inputs fixed
Query_fixing_inputs(op, r) ==
    /\ phase = "built"
    /\ Idle
    /\ \E res \in {r} :
           /\ last' = [Call(op, None, res) EXCEPT !.nsplu = splu_calls(op, P, nlp)]
           /\ hist' = [hist EXCEPT !.trouble = @ \/ res.status # "ok"]
    /\ fixed' = fix_on_enter(fixed, P.input_vars)
    /\ UNCHANGED <<phase, pname, val, nlp, mult, dense, sparse>>

\* Query rebuilding the evaluator from the variables
Query_rebuild(op, r) ==
    /\ phase = "built"
    /\ Idle
    /\ \E res \in {r} :
           /\ last' = [Call(op, None, res) EXCEPT !.nsplu = splu_calls(op, P, nlp)]
           /\ hist' = [hist EXCEPT !.trouble = @ \/ res.status # "ok"]
    /\ nlp' = PyomoNLP(val)
    /\ UNCHANGED <<phase, pname, val, fixed, mult, dense, sparse>>

Query(op, r) ==
    /\ phase = "built"
    /\ Idle
    /\ \E res \in {r} :
           /\ last' = [Call(op, None, res) EXCEPT !.nsplu = splu_calls(op, P, nlp)]
           /\ hist' = [hist EXCEPT !.trouble = @ \/ res.status # "ok"]
    /\ UNCHANGED <<phase, pname, val, fixed, nlp, mult, dense, sparse>>

EvaluateEqualityConstraints ==
    Query("evaluate_equality_constraints", evaluate_equality_constraints(P, nlp))

EvaluateJacobianEqualityConstraints ==
    Query("evaluate_jacobian_equality_constraints",
          evaluate_jacobian_equality_constraints(P, nlp))

EvaluateJacobianExternalVariables ==
    Query("evaluate_jacobian_external_variables",
          evaluate_jacobian_external_variables(P, nlp))

EvaluateHessianExternalVariables ==
    Query("evaluate_hessian_external_variables",
          evaluate_hessian_external_variables(P, nlp, val, fixed))

EvaluateHessiansOfResiduals ==
    Query("evaluate_hessians_of_residuals",
          evaluate_hessians_of_residuals(P, nlp, val, fixed))

EvaluateHessianEqualityConstraints ==
    Query("evaluate_hessian_equality_constraints",
          evaluate_hessian_equality_constraints(P, nlp, val, fixed, mult))

NInputs == Query("n_inputs", Ok(n_inputs(P)))

NEqualityConstraints == Query("n_equality_constraints", Ok(n_equality_constraints(P)))

InputNames == Query("input_names", Ok(input_names(P)))

EqualityConstraintNames ==
    Query("equality_constraint_names", Ok(equality_constraint_names(P)))

\* the names of the queries, and the result of each at a given evaluator,
\* variable values, fixed flags and multipliers
Queries ==
    {"evaluate_equality_constraints", "evaluate_jacobian_equality_constraints",
     "evaluate_jacobian_external_variables", "evaluate_hessian_external_variables",
     "evaluate_hessians_of_residuals", "evaluate_hessian_equality_constraints"}

QueryAt(op, part, evaluator, values, flags, multipliers) ==
    CASE op = "evaluate_equality_constraints" ->
            evaluate_equality_constraints(part, evaluator)
      [] op = "evaluate_jacobian_equality_constraints" ->
            evaluate_jacobian_equality_constraints(part, evaluator)
      [] op = "evaluate_jacobian_external_variables" ->
            evaluate_jacobian_external_variables(part, evaluator)
      [] op = "evaluate_hessian_external_variables" ->
            evaluate_hessian_external_variables(part, evaluator, values, flags)
      [] op = "evaluate_hessians_of_residuals" ->
            evaluate_hessians_of_residuals(part, evaluator, values, flags)
      [] op = "evaluate_hessian_equality_constraints" ->
            evaluate_hessian_equality_constraints(part, evaluator, values, flags,
                                                  multipliers)

\* the caller takes the result (or the exception) of the call that has ended
Return ==
    /\ ~Idle
    /\ last' = NoCall
    /\ UNCHANGED <<phase, pname, val, fixed, nlp, mult, hist, dense, sparse>>

Next ==
    \/ __init__
    \/ Return
    \/ /\ Idle
       /\ \E x \in NearSeqs(XVals, Len(P.input_vars)) :
          \E outcome \in SolverOutcomes :
          \E ys \in SeqsOf(YVals, Len(P.external_vars)) :
               SetInputValues(x, outcome, ys)
    \/ /\ Idle
       /\ \E lam \in NearSeqs(LambdaVals, Len(P.residual_cons)) : SetMultipliers(lam)
    \/ EvaluateEqualityConstraints
    \/ EvaluateJacobianEqualityConstraints
    \/ EvaluateJacobianExternalVariables
    \/ EvaluateHessianExternalVariables
    \/ EvaluateHessiansOfResiduals
    \/ EvaluateHessianEqualityConstraints
    \/ NInputs
    \/ NEqualityConstraints
    \/ InputNames
    \/ EqualityConstraintNames

Spec == Init /\ [][Next]_vars

(***************************************************************************)
(* The multipliers and the Hessian of the Lagrangian: the model as in     *)
(* Spec, every set_equality_constraint_multipliers call recorded, and the  *)
(* two queries that read the residual Hessians.                            *)
(***************************************************************************)
NextLag ==
    \/ __init__
    \/ Return
    \/ /\ Idle
       /\ \E x \in NearSeqs(XVals, Len(P.input_vars)) :
          \E outcome \in SolverOutcomes :
          \E ys \in SeqsOf(YVals, Len(P.external_vars)) :
               SetInputValues(x, outcome, ys)
    \/ /\ Idle
       /\ \E lam \in NearSeqs(LambdaVals, Len(P.residual_cons)) :
               SetMultipliersRecorded(lam)
    \/ EvaluateHessiansOfResiduals
    \/ EvaluateHessianEqualityConstraints

SpecLag == Init /\ [][NextLag]_vars

(***************************************************************************)
(* _dense_to_full_sparse on its own: every dense matrix of up to MaxDim    *)
(* rows and columns with entries in FillVals.                              *)
(***************************************************************************)
FillVals == {0 - 1, 0, 1}

DenseMatrices(maxdim) ==
    UNION {{[nrow |-> nr, ncol |-> nc, a |-> q] :
                q \in SeqsOf({RInt(v) : v \in FillVals}, nr * nc)} :
           nr \in 0..maxdim, nc \in 0..maxdim}

InitFill ==
    /\ phase = "new"
    /\ pname = "sqrt"
    /\ val = P.init
    /\ fixed = [i \in 1..Len(P.init) |-> FALSE]
    /\ nlp = None
    /\ mult = <<>>
    /\ last = NoCall
    /\ hist = NoHist
    /\ dense \in {Some(m) : m \in DenseMatrices(MaxDim)}
    /\ sparse = None

DenseToFullSparse ==
    /\ dense # None
    /\ sparse = None
    /\ sparse' = Some(_dense_to_full_sparse(dense[1]))
    /\ UNCHANGED <<phase, pname, val, fixed, nlp, mult, last, hist, dense>>

NextFill == DenseToFullSparse

SpecFill == InitFill /\ [][NextFill]_vars

(***************************************************************************)
(* get_hessian_of_constraint called directly, with a constraint of the     *)
(* partition pname and lists of its variables, at the values val and the   *)
(* fixed flags fixed.                                                      *)
(***************************************************************************)
RECURSIVE DistinctSeqs(_, _)
\* the sequences of n distinct elements of S
DistinctSeqs(S, n) ==
    IF n = 0 THEN {<<>>}
    ELSE UNION {{Append(q, v) : v \in S \ Range(q)} : q \in DistinctSeqs(S, n - 1)}

\* the non-empty lists of distinct unfixed variables
VarLists(flags) ==
    LET free == {i \in 1..Len(flags) : ~flags[i]}
    IN  UNION {DistinctSeqs(free, n) : n \in 1..Cardinality(free)}

\* an optional list of variables: None or a list
WrtArgs(flags) == {None} \cup {Some(q) : q \in VarLists(flags)}

\* the points of the direct calls: the values of the partition and the
\* values all one larger
HessPoints(part) == {part.init, [i \in 1..Len(part.init) |-> part.init[i] + 1]}

InitHess ==
    /\ phase = "new"
    /\ pname \in {part.name : part \in Partitions}
    /\ val \in HessPoints(P)
    /\ fixed \in InitFixed(P)
    /\ nlp = None
    /\ mult = <<>>
    /\ last = NoCall
    /\ hist = NoHist
    /\ dense = None
    /\ sparse = None

GetHessianOfConstraint(constraint, wrt1, wrt2, order) ==
    /\ Idle
    /\ last' = Call("get_hessian_of_constraint",
                    [constraint |-> constraint, wrt1 |-> wrt1, wrt2 |-> wrt2,
                     order |-> order],
                    Ok(hessian_of_constraint_call(constraint, wrt1, wrt2, val, fixed,
                                                  order)))
    /\ UNCHANGED <<phase, pname, val, fixed, nlp, mult, hist, dense, sparse>>

NextHess ==
    \/ \E constraint \in Range(P.residual_cons) \cup Range(P.external_cons) :
       \E wrt1 \in WrtArgs(fixed), wrt2 \in WrtArgs(fixed) :
       \E order \in ConstraintOrders :
            GetHessianOfConstraint(constraint, wrt1, wrt2, order)
    \/ Return

SpecHess == InitHess /\ [][NextHess]_vars

(***************************************************************************)
(* Reference linear algebra for the properties: determinants by cofactor   *)
(* expansion and the solution of A*X = B by Cramer's rule.                 *)
(***************************************************************************)
\* A without row i and column j
Minor(A, i, j) ==
    Mat(A.nrow - 1, A.ncol - 1,
        LAMBDA r, c : At(A, IF r < i THEN r ELSE r + 1, IF c < j THEN c ELSE c + 1))

RECURSIVE Det(_)
Det(A) ==
    IF A.nrow = 0 THEN RInt(1)
    ELSE RSum(LAMBDA j : RMul(RInt(IF j % 2 = 0 THEN 1 ELSE 0 - 1),
                              RMul(At(A, 0, j), Det(Minor(A, 0, j)))),
              0, A.ncol - 1)

\* A with column r replaced by column c of B
ReplaceCol(A, r, B, c) ==
    Mat(A.nrow, A.ncol, LAMBDA i, j : IF j = r THEN At(B, i, c) ELSE At(A, i, j))

CramerSolve(A, B) ==
    Mat(A.nrow, B.ncol, LAMBDA r, c : RDiv(Det(ReplaceCol(A, r, B, c)), Det(A)))

\* the Jacobian blocks at the point held by the model's evaluator
Jfx == extract_submatrix_jacobian(nlp, P.input_vars, P.residual_cons)
Jfy == extract_submatrix_jacobian(nlp, P.external_vars, P.residual_cons)
Jgx == extract_submatrix_jacobian(nlp, P.input_vars, P.external_cons)
Jgy == extract_submatrix_jacobian(nlp, P.external_vars, P.external_cons)

Square(part) == Len(part.external_vars) = Len(part.external_cons)

\* a coordinate matrix stores exactly one entry for each coordinate of nr x nc
FullPattern(coo, nr, nc) ==
    /\ coo.shape = <<nr, nc>>
    /\ Len(coo.row) = nr * nc
    /\ Len(coo.col) = nr * nc
    /\ Len(coo.data) = nr * nc
    /\ \A i \in 0..(nr - 1), j \in 0..(nc - 1) :
          Cardinality({k \in 1..Len(coo.row) : coo.row[k] = i /\ coo.col[k] = j}) = 1

(***************************************************************************)
(* Properties.                                                             *)
(***************************************************************************)

\* C1: a partition whose number of external variables differs from its
\* number of external equations is rejected by the constructor: the call
\* raises and no model (no evaluator, no multiplier list) comes to exist.
C1_NonSquareRejected ==
    (phase # "new" /\ ~Square(P)) =>
        /\ phase = "rejected"
        /\ nlp = None
        /\ mult = <<>>
        /\ last.op = "__init__" => last.status = "AssertionError"

C1_Witness ==
    /\ phase = "rejected"
    /\ last.op = "__init__"
    /\ last.status = "AssertionError"
    /\ Len(P.external_vars) > Len(P.external_cons)

\* C2 (as claimed): while no set_input_values has returned normally, the
\* residual, Jacobian and Lagrangian-Hessian queries raise and return no
\* numeric result.
C2_QueryBeforeInputsRaises ==
    (/\ hist.good = None
     /\ last.op \in {"evaluate_equality_constraints",
                     "evaluate_jacobian_equality_constraints",
                     "evaluate_hessian_equality_constraints"})
        => last.status # "ok"

\* C3 (as claimed): a set_input_values call in which the nested solver does
\* not converge raises, having invoked the solver exactly once.
C3_NonConvergenceRaises ==
    (/\ last.op = "set_input_values"
     /\ last.outcome \in {"not_converged", "raises"})
        => (last.status # "ok" /\ last.nsolve = 1)

\* C4 (as claimed): whenever the most recent set_input_values returned
\* normally, the external variables solve the external equations at the
\* current inputs.
C4_ReadyImpliesSolved ==
    hist.cur \in {"converged", "recovered", "not_converged"}
        => SolvesExternal(P, val)

\* C5 (as claimed): once a set_input_values has returned normally, the
\* result of every query is the one obtained with every quantity evaluated
\* at the point of the most recent such call.
C5_OnePoint ==
    (hist.good # None /\ last.op \in Queries) =>
        LET r == QueryAt(last.op, P, PyomoNLP(hist.good[1]), hist.good[1], fixed, mult)
        IN  last.status = r.status /\ last.value = r.value

\* C6: when a set_input_values whose nested solve converges follows trouble
\* (a call that raised, or a solve that did not converge), it returns
\* normally, the inputs hold the values passed, the external variables
\* solve the external equations, the evaluator is built at these values,
\* and every query until the next set_input_values is answered at them.
C6_RecoversAfterFailure ==
    hist.cur = "recovered" =>
        /\ hist.good = Some(val)
        /\ nlp = PyomoNLP(val)
        /\ SolvesExternal(P, val)
        /\ last.op = "set_input_values" =>
              /\ last.status = "ok"
              /\ last.nsolve = 1
              /\ Len(last.args[1]) = Len(P.input_vars) =>
                    \A k \in 1..Len(P.input_vars) :
                        val[P.input_vars[k]] = last.args[1][k]
        /\ last.op \in Queries =>
              LET r == QueryAt(last.op, P, PyomoNLP(val), val, fixed, mult)
              IN  last.status = r.status /\ last.value = r.value

C6_Witness ==
    /\ hist.cur = "recovered"
    /\ last.op = "evaluate_hessians_of_residuals"
    /\ last.status = "ok"
    /\ val # P.init

\* C7: where dg/dy is nonsingular at the evaluator's point,
\* evaluate_jacobian_equality_constraints returns, entry by entry,
\* df/dx + (df/dy)*D for the matrix D with (dg/dy)*D = -(dg/dx).
C7_JacobianFormula ==
    (last.op = "evaluate_jacobian_equality_constraints" /\ Det(Jgy) # RZero) =>
        LET D == MatScale(RInt(0 - 1), CramerSolve(Jgy, Jgx))
            ref == MatAdd(Jfx, MatDot(Jfy, D))
        IN  /\ last.status = "ok"
            /\ MatDot(Jgy, D) = MatScale(RInt(0 - 1), Jgx)
            /\ \A i \in 0..(ref.nrow - 1), j \in 0..(ref.ncol - 1) :
                  \E k \in 1..Len(last.value.row) :
                      /\ last.value.row[k] = i
                      /\ last.value.col[k] = j
                      /\ last.value.data[k] = At(ref, i, j)

C7_Witness ==
    /\ last.op = "evaluate_jacobian_equality_constraints"
    /\ last.status = "ok"
    /\ Len(P.external_vars) = 2
    /\ \E k \in 1..Len(last.value.data) : last.value.data[k] # RZero
    /\ \E i \in 0..1, j \in 0..0 : At(CramerSolve(Jgy, Jgx), i, j).d # 1

\* C8: the matrix returned by evaluate_jacobian_equality_constraints has
\* shape |f| x |x| and stores exactly one entry for each of its
\* coordinates, zero or not.
C8_JacobianFullPattern ==
    (last.op = "evaluate_jacobian_equality_constraints" /\ last.status = "ok") =>
        FullPattern(last.value, Len(P.residual_cons), Len(P.input_vars))

C8_Witness ==
    /\ last.op = "evaluate_jacobian_equality_constraints"
    /\ last.status = "ok"
    /\ Len(P.input_vars) = 2
    /\ \E k \in 1..Len(last.value.data) : last.value.data[k] = RZero
    /\ \E k \in 1..Len(last.value.data) : last.value.data[k] # RZero

\* C9: _dense_to_full_sparse returns a coordinate matrix of the shape of its
\* argument that stores every coordinate exactly once, with the value the
\* dense matrix has there, zero or not.
C9_FullSparse ==
    sparse # None =>
        LET m == dense[1]
            coo == sparse[1]
        IN  /\ FullPattern(coo, m.nrow, m.ncol)
            /\ \A k \in 1..Len(coo.data) : coo.data[k] = At(m, coo.row[k], coo.col[k])

C9_Witness ==
    /\ sparse # None
    /\ dense[1].nrow = 2
    /\ dense[1].ncol = 2
    /\ Cardinality({k \in 1..4 : dense[1].a[k] = RZero}) = 3

\* C10: when dg/dy is singular at the evaluator's point, every Jacobian and
\* Hessian query raises the factorization's error and returns no result.
C10_SingularRaises ==
    (/\ last.op \in Queries \ {"evaluate_equality_constraints"}
     /\ Det(Jgy) = RZero)
        => (last.status = "RuntimeError" /\ last.value = None)

C10_Witness ==
    /\ last.op = "evaluate_hessian_equality_constraints"
    /\ last.status = "RuntimeError"
    /\ Len(P.external_vars) = 2
    /\ Det(Jgy) = RZero

(***************************************************************************)
(* Reference calculus for the second-order properties: second partial      *)
(* derivatives taken directly from the constraint bodies.                  *)
(***************************************************************************)
\* the block of second partial derivatives of con with respect to the
\* variables rows and cols at the point z
HessBlock(con, rows, cols, z) ==
    Mat(Len(rows), Len(cols),
        LAMBDA i, j : RInt(PolyVal(PolyDiff(PolyDiff(con, rows[i + 1]), cols[j + 1]), z)))

\* H_xx + (H_xy*J + (H_xy*J)^T) + J^T*H_yy*J for con at the point z
ChainRef(con, x, y, J, z) ==
    MatAdd(MatAdd(HessBlock(con, x, x, z),
                  MatAdd(MatDot(HessBlock(con, x, y, z), J),
                         MatT(MatDot(HessBlock(con, x, y, z), J)))),
           MatDot(MatDot(MatT(J), HessBlock(con, y, y, z)), J))

\* dy/dx at the point of the evaluator e by Cramer's rule
JyxAt(part, e) ==
    MatScale(RInt(0 - 1),
             CramerSolve(extract_submatrix_jacobian(e, part.external_vars, part.external_cons),
                         extract_submatrix_jacobian(e, part.input_vars, part.external_cons)))

\* dg/dy is invertible at the point of the evaluator e
RegularAt(part, e) ==
    Det(extract_submatrix_jacobian(e, part.external_vars, part.external_cons)) # RZero

\* the i-th residual Hessian by the chain rule with every first and second
\* partial derivative taken at the point of the evaluator e and d2y/dx2 as
\* given
ResidualHessianAt(part, e, d2ydx2, i) ==
    LET x == part.input_vars
        y == part.external_vars
        jfy == extract_submatrix_jacobian(e, y, part.residual_cons)
    IN  MatAdd(ChainRef(part.residual_cons[i], x, y, JyxAt(part, e), e.z),
               Mat(Len(x), Len(x), LAMBDA a, b :
                   RSum(LAMBDA k : RMul(At(jfy, i - 1, k - 1), At(d2ydx2[k], a, b)),
                        1, Len(y))))

\* d2y/dx2 solves (dg/dy)*v = -s for every pair of inputs, with every
\* partial derivative taken at the point of the evaluator e
ExternalHessianSolvesAt(part, e, d2ydx2) ==
    LET x == part.input_vars
        y == part.external_vars
        g == part.external_cons
        jgy == extract_submatrix_jacobian(e, y, g)
    IN  \A i \in 0..(Len(x) - 1), j \in 0..(Len(x) - 1), m \in 1..Len(g) :
            RSum(LAMBDA k : RMul(At(jgy, m - 1, k - 1), At(d2ydx2[k], i, j)),
                 1, Len(y))
               = RNeg(At(ChainRef(g[m], x, y, JyxAt(part, e), e.z), i, j))

\* a coordinate matrix of shape n x n stores exactly one entry for each
\* coordinate on or below the diagonal and none above it
LowerPattern(coo, n) ==
    /\ coo.shape = <<n, n>>
    /\ Len(coo.row) = Len(coo.data)
    /\ Len(coo.col) = Len(coo.data)
    /\ \A k \in 1..Len(coo.data) : coo.col[k] <= coo.row[k]
    /\ \A i \in 0..(n - 1), j \in 0..(n - 1) :
          Cardinality({k \in 1..Len(coo.row) : coo.row[k] = i /\ coo.col[k] = j})
              = IF j <= i THEN 1 ELSE 0

\* C11: a matrix returned by evaluate_hessian_equality_constraints has shape
\* |x| x |x| and stores exactly one entry, zero or not, for every coordinate
\* (i, j) with j <= i and no entry with j > i.
C11_LowerTrianglePattern ==
    (last.op = "evaluate_hessian_equality_constraints" /\ last.status = "ok") =>
        LowerPattern(last.value, Len(P.input_vars))

C11_Witness ==
    /\ last.op = "evaluate_hessian_equality_constraints"
    /\ last.status = "ok"
    /\ Len(P.input_vars) = 2
    /\ hist.cur = "converged"
    /\ \E k \in 1..Len(last.value.data) : last.value.data[k] = RZero

\* C12: every entry (i, j) stored in the matrix returned by
\* evaluate_hessian_equality_constraints is the sum over the residuals k of
\* lambda_k times entry (i, j) of the k-th matrix of
\* evaluate_hessians_of_residuals at the same state, lambda being the vector
\* handed to the most recent set_equality_constraint_multipliers call (a
\* residual that vector has no value for carries no weight).
C12_WeightedSumOfHessians ==
    (last.op = "evaluate_hessian_equality_constraints" /\ last.status = "ok") =>
        /\ hist.lam # None
        /\ LET lambda == hist.lam[1]
               H == evaluate_hessians_of_residuals(P, nlp, val, fixed).value
               M == last.value
           IN  \A e \in 1..Len(M.data) :
                  M.data[e] =
                      RSum(LAMBDA k : IF k <= Len(lambda)
                                      THEN RMul(RInt(lambda[k]),
                                                At(H[k], M.row[e], M.col[e]))
                                      ELSE RZero,
                           1, Len(P.residual_cons))

\* C13: evaluate_hessian_equality_constraints called while the multiplier
\* of some residual is still unset raises and returns no matrix.
C13_UnsetMultiplierRaises ==
    (/\ last.op = "evaluate_hessian_equality_constraints"
     /\ \E k \in 1..Len(mult) : mult[k] = None)
        => (last.status # "ok" /\ last.value = None)

C13_Witness ==
    /\ last.op = "evaluate_hessian_equality_constraints"
    /\ last.status = "TypeError"
    /\ hist.cur = "converged"
    /\ \E k \in 1..Len(mult) : mult[k] = None
    /\ \E k \in 1..Len(mult) : mult[k] # None

\* C14: after a set_equality_constraint_multipliers call that returns
\* normally the model holds one multiplier per residual and the i-th is the
\* i-th value of the call.
C14_AllMultipliersReplaced ==
    (last.op = "set_equality_constraint_multipliers" /\ last.status = "ok") =>
        /\ Len(mult) = Len(P.residual_cons)
        /\ Len(last.args[1]) = Len(P.residual_cons)
        /\ \A i \in 1..Len(mult) : mult[i] = Some(last.args[1][i])

\* C15: a set_equality_constraint_multipliers call does not invoke the
\* nested solver, leaves the evaluator and the value and fixed flag of every
\* variable as they were, and the residuals and the Jacobian the model
\* returns are the same before and after it.
C15_MultipliersOnly ==
    [][last'.op = "set_equality_constraint_multipliers" =>
          /\ last'.nsolve = 0
          /\ nlp' = nlp
          /\ val' = val
          /\ fixed' = fixed
          /\ evaluate_equality_constraints(P, nlp')
                = evaluate_equality_constraints(P, nlp)
          /\ evaluate_jacobian_equality_constraints(P, nlp')
                = evaluate_jacobian_equality_constraints(P, nlp)]_vars

C15_Witness ==
    /\ last.op = "set_equality_constraint_multipliers"
    /\ last.status = "ok"
    /\ nlp # PyomoNLP(val)
    /\ evaluate_equality_constraints(P, nlp)
          # evaluate_equality_constraints(P, PyomoNLP(val))

\* C16: a set_input_values call whose vector does not have one value per
\* input raises and does not invoke the nested solver.
C16_WrongLengthRejected ==
    (/\ last.op = "set_input_values"
     /\ Len(last.args[1]) # Len(P.input_vars))
        => (last.status # "ok" /\ last.nsolve = 0)

\* C17: dg/dy is factorized at most once between two set_input_values calls,
\* however many queries come between; the least this requires is that no
\* single query factorizes it more than once.
C17_OneFactorization ==
    last.op \in Queries => last.nsplu <= 1

\* C18: evaluate_equality_constraints returns the residuals held by the
\* evaluator, and no call other than set_input_values changes what it
\* returns: two calls with no set_input_values between them return the same
\* vector, whatever queries and multiplier calls come between.
C18_ResidualsIdempotent ==
    [][phase = "built" =>
          /\ last'.op \notin {"set_input_values", "none"} =>
                evaluate_equality_constraints(P, nlp')
                    = evaluate_equality_constraints(P, nlp)
          /\ last'.op = "none" => nlp' = nlp
          /\ last'.op = "evaluate_equality_constraints" =>
                /\ last'.status = "ok"
                /\ last'.value = evaluate_equality_constraints(P, nlp).value]_vars

C18_Witness ==
    /\ last.op = "evaluate_equality_constraints"
    /\ hist.cur = "converged"
    /\ hist.trouble
    /\ \A k \in 1..Len(mult) : mult[k] # None
    /\ nlp = PyomoNLP(val)
    /\ val # P.init

\* C19: there is one point, the evaluator's or the one the variables hold,
\* at which the i-th matrix returned by evaluate_hessians_of_residuals is
\* H_xx + (H_xy*J + (H_xy*J)^T) + J^T*H_yy*J + sum_k (df_i/dy_k)*d2y_k/dx2,
\* with the second partial derivatives of f_i, J = dy/dx and df/dy all at
\* that point and d2y/dx2 the result of evaluate_hessian_external_variables.
C19_ResidualHessianFormula ==
    (last.op = "evaluate_hessians_of_residuals" /\ last.status = "ok") =>
        LET d2ydx2 == evaluate_hessian_external_variables(P, nlp, val, fixed).value
        IN  /\ Len(last.value) = Len(P.residual_cons)
            /\ \E e \in {nlp, PyomoNLP(val)} :
                  /\ RegularAt(P, e)
                  /\ \A i \in 1..Len(P.residual_cons) :
                        last.value[i] = ResidualHessianAt(P, e, d2ydx2, i)

\* C20: evaluate_hessian_external_variables returns one |x| x |x| matrix per
\* external variable, and there is one point, the evaluator's or the one the
\* variables hold, such that for every pair of inputs (i, j) the vector v of
\* their (i, j) entries solves (dg/dy)*v = -s, where s[m] is entry (i, j) of
\* H_xx + (H_xy*J + (H_xy*J)^T) + J^T*H_yy*J for the external equation g_m,
\* all at that point.
C20_ExternalHessianSolves ==
    (last.op = "evaluate_hessian_external_variables" /\ last.status = "ok") =>
        /\ Len(last.value) = Len(P.external_vars)
        /\ \A k \in 1..Len(P.external_vars) :
              /\ last.value[k].nrow = Len(P.input_vars)
              /\ last.value[k].ncol = Len(P.input_vars)
        /\ \E e \in {nlp, PyomoNLP(val)} :
              RegularAt(P, e) /\ ExternalHessianSolvesAt(P, e, last.value)

\* the labels of a sequence are pairwise distinct
Distinct(q) == \A a \in 1..Len(q), b \in 1..Len(q) : q[a] = q[b] => a = b

\* C21: whatever calls came before, n_inputs and n_equality_constraints
\* return the number of inputs and of residuals of the partition the model
\* was built with, and input_names and equality_constraint_names return that
\* many labels, pairwise distinct, the label at Python index i being
\* "input_i" / "residual_i".
C21_SizesAndNames ==
    /\ last.op = "n_inputs" => last.value = Len(P.input_vars)
    /\ last.op = "n_equality_constraints" => last.value = Len(P.residual_cons)
    /\ last.op = "input_names" =>
          /\ Len(last.value) = Len(P.input_vars)
          /\ Distinct(last.value)
          /\ \A k \in 1..Len(last.value) : last.value[k] = "input_" \o ToString(k - 1)
    /\ last.op = "equality_constraint_names" =>
          /\ Len(last.value) = Len(P.residual_cons)
          /\ Distinct(last.value)
          /\ \A k \in 1..Len(last.value) : last.value[k] = "residual_" \o ToString(k - 1)

\* labels of two inputs, asked for after a set_input_values call and a
\* set_equality_constraint_multipliers call have changed the model
C21_Witness ==
    /\ last.op = "input_names"
    /\ Len(last.value) = 2
    /\ val # P.init
    /\ \E k \in 1..Len(mult) : mult[k] # None

\* C22: while the nested solver runs inside set_input_values every input is
\* fixed, and when the call ends, normally or by an error of the solver,
\* every input holds the value the call assigned to it, no variable other
\* than an external one has changed, and the fixed flag of every variable
\* is what it was before the call.
C22_InputsHeldFixed ==
    [][last'.op = "set_input_values" =>
          LET assigned == Assign(val, P.input_vars, last'.args[1])
          IN  /\ last'.nsolve > 0 =>
                    \A i \in Range(P.input_vars) : last'.solve_fixed[1][i]
              /\ \A i \in 1..Len(val) :
                    i \notin Range(P.external_vars) => val'[i] = assigned[i]
              /\ fixed' = fixed]_vars

\* the solver has run on new inputs and moved an external variable
C22_Witness ==
    /\ last.op = "set_input_values"
    /\ last.outcome = "converged"
    /\ \E i \in Range(P.input_vars) : val[i] # P.init[i]
    /\ \E i \in Range(P.external_vars) : val[i] # P.init[i]
    /\ \A i \in Range(P.input_vars) : last.solve_fixed[1][i] /\ ~fixed[i]

\* C25: a set_input_values call on a model with an external equation that
\* references an unfixed variable which is neither an input nor an external
\* variable raises AssertionError without invoking the nested solver and
\* leaves the evaluator as it was, while the inputs hold the values of the
\* call.
C25_StrayVariableAsserts ==
    [][(/\ last'.op = "set_input_values"
        /\ \E m \in 1..Len(P.external_cons) :
              \E i \in VarsOf(P.external_cons[m]) :
                 /\ ~fixed[i]
                 /\ i \notin Range(P.input_vars)
                 /\ i \notin Range(P.external_vars))
          => /\ last'.status = "AssertionError"
             /\ last'.nsolve = 0
             /\ nlp' = nlp
             /\ val' = Assign(val, P.input_vars, last'.args[1])]_vars

\* the call has raised on the assertion after it gave the input a new value
C25_Witness ==
    /\ last.op = "set_input_values"
    /\ last.status = "AssertionError"
    /\ last.nsolve = 0
    /\ nlp = PyomoNLP(P.init)
    /\ \E i \in Range(P.input_vars) : val[i] # P.init[i]

\* C23: the sub-model of get_hessian_of_constraint has two equations, the
\* constraint asked for and the auxiliary presence constraint; the
\* multipliers handed to the evaluator are 1 at the index of the constraint
\* and 0 at the index of the auxiliary constraint, and the matrix returned
\* is the Hessian of the Lagrangian of the constraint alone with multiplier
\* 1, at the same point.
C23_UnitMultiplierIsolates ==
    last.op = "get_hessian_of_constraint" =>
        LET r == last.value
            c == WithDummy(last.args.constraint)
            aux == 3 - r.idx
        IN  /\ Len(r.constraints) = 2
            /\ r.idx \in {1, 2}
            /\ r.constraints[r.idx] = c
            /\ r.constraints[aux] = DummyCon(r.variables, Len(val))
            /\ Len(r.duals) = 2
            /\ r.duals[r.idx] = 1
            /\ r.duals[aux] = 0
            /\ r.value = extract_submatrix_hessian_lag(PyomoNLP(Append(val, 0)),
                                                       <<c>>, <<1>>, r.wrt1, r.wrt2)

\* the evaluator lists the auxiliary constraint first and the Hessian of the
\* constraint asked for is not zero
C23_Witness ==
    /\ last.op = "get_hessian_of_constraint"
    /\ last.value.idx = 2
    /\ last.args.wrt1 # None
    /\ last.args.wrt2 # None
    /\ \E a \in 0..(last.value.value.nrow - 1), b \in 0..(last.value.value.ncol - 1) :
          At(last.value.value, a, b) # RZero

\* the variable lists a call stands for: a list not given is the other one
WrtOf(given, other) == IF given # None THEN given[1] ELSE other[1]

\* C24: a get_hessian_of_constraint call with at least one variable list
\* returns a |v1| x |v2| matrix whose entry (a, b) is the second partial
\* derivative of the constraint with respect to v1[a] and v2[b], a list not
\* given being the other one; the entry is zero when one of the two
\* variables does not appear in the constraint, and every variable of v1
\* and v2 appears in the auxiliary constraint.
C24_HessianBlock ==
    (/\ last.op = "get_hessian_of_constraint"
     /\ (last.args.wrt1 # None \/ last.args.wrt2 # None)) =>
        LET r == last.value
            c == last.args.constraint
            v1 == WrtOf(last.args.wrt1, last.args.wrt2)
            v2 == WrtOf(last.args.wrt2, last.args.wrt1)
            aux == r.constraints[3 - r.idx]
        IN  /\ r.value.nrow = Len(v1)
            /\ r.value.ncol = Len(v2)
            /\ \A a \in 1..Len(v1), b \in 1..Len(v2) :
                  /\ At(r.value, a - 1, b - 1)
                        = RInt(PolyVal(PolyDiff(PolyDiff(c, v1[a]), v2[b]), val))
                  /\ (v1[a] \notin VarsOf(c) \/ v2[b] \notin VarsOf(c))
                        => At(r.value, a - 1, b - 1) = RZero
            /\ Range(v1) \cup Range(v2) \subseteq VarsOf(aux)

\* overlapping lists of different lengths, one of them with a variable that
\* does not appear in the constraint, and a second derivative that is not
\* the same in both orders of the lists
C24_Witness ==
    /\ last.op = "get_hessian_of_constraint"
    /\ last.args.wrt1 # None
    /\ last.args.wrt2 # None
    /\ Len(last.args.wrt1[1]) # Len(last.args.wrt2[1])
    /\ Range(last.args.wrt1[1]) \cap Range(last.args.wrt2[1]) # {}
    /\ ~(Range(last.args.wrt1[1]) \subseteq VarsOf(last.args.constraint))
    /\ \E a \in 0..(last.value.value.nrow - 1), b \in 0..(last.value.value.ncol - 1) :
          At(last.value.value, a, b) # RZero

\* C26: every matrix returned by evaluate_hessian_external_variables and by
\* evaluate_hessians_of_residuals is symmetric (the Hessian blocks H_xx and
\* H_yy of the evaluator are symmetric at every point).
C26_HessiansSymmetric ==
    (/\ last.op \in {"evaluate_hessian_external_variables",
                     "evaluate_hessians_of_residuals"}
     /\ last.status = "ok") =>
        \A k \in 1..Len(last.value) :
            /\ last.value[k].nrow = last.value[k].ncol
            /\ \A i \in 0..(last.value[k].nrow - 1), j \in 0..(last.value[k].nrow - 1) :
                  At(last.value[k], i, j) = At(last.value[k], j, i)

\* a residual Hessian in two inputs with an entry off the diagonal that is
\* not zero, and H_xy*J not symmetric
C26_Witness ==
    /\ last.op = "evaluate_hessians_of_residuals"
    /\ last.status = "ok"
    /\ Len(P.input_vars) = 2
    /\ \E k \in 1..Len(last.value) : At(last.value[k], 0, 1) # RZero
    /\ LET prod == MatDot(HessBlock(P.external_cons[1], P.input_vars, P.external_vars, val),
                          evaluate_jacobian_external_variables(P, nlp).value)
       IN  At(prod, 0, 1) # At(prod, 1, 0)

\* C27: a query leaves the value and the fixed flag of every variable, the
\* stored multipliers, the partition and the model's evaluator as they
\* were, and does not invoke the nested solver.
C27_QueriesChangeNothing ==
    [][last'.op \in Queries =>
          /\ val' = val
          /\ fixed' = fixed
          /\ mult' = mult
          /\ pname' = pname
          /\ nlp' = nlp
          /\ last'.nsolve = 0
          /\ last'.outcome = "none"]_vars

\* a Hessian query has returned a matrix while the evaluator's point is not
\* the variables' point
C27_Witness ==
    /\ last.op = "evaluate_hessian_equality_constraints"
    /\ last.status = "ok"
    /\ nlp # PyomoNLP(val)
    /\ \A k \in 1..Len(mult) : mult[k] # None
====
